---- MODULE Spec2Model ----
(***************************************************************************)
(* Connection-and-dispatch engine of the mcp2rest gateway                  *)
(* (packages/mcp2rest/src/gateway/Gateway.ts; the mcp2agent gateway is the *)
(* same code).  One action is one run-to-completion segment of the Node.js *)
(* event loop: the synchronous code between two awaits of a handler.       *)
(*                                                                         *)
(* ServerState objects and Client objects have identity in the source.     *)
(* An entry carries the id of its object in the field obj; a handler that  *)
(* captured a ServerState writes to it only while that object is still the *)
(* one in the map (a write to an object that left the map is unobservable, *)
(* since the map is only ever given fresh objects).                        *)
(***************************************************************************)
EXTENDS Integers, Sequences, FiniteSets, TLC

\* ------------------------------------------------------------------ bounds
Names == {"a", "b"}
MaxClients == 3
MaxObjs == 3
MaxCalls == 2

\* ------------------------------------------------------- program constants
MAX_RECONNECT_ATTEMPTS == 10
MAX_BACKOFF_DELAY == 30000
baseDelay == 1000

None == "none"
ClientIds == 1..MaxClients
ObjIds == 1..MaxObjs
CallIds == 1..MaxCalls

\* ------------------------------------------------------------- pure helpers
Min(x, y) == IF x <= y THEN x ELSE y

RECURSIVE Pow2(_)
\* Math.pow(2, n)
Pow2(n) == IF n = 0 THEN 1 ELSE 2 * Pow2(n - 1)

\* String.prototype.includes on a message kept as a sequence of words
Includes(msg, word) == \E i \in 1..Len(msg) : msg[i] = word

\* position of x in the sequence s, 0 when it does not occur
IndexOf(s, x) == IF \E i \in 1..Len(s) : s[i] = x
                 THEN CHOOSE i \in 1..Len(s) : s[i] = x ELSE 0

\* the leading "CODE:" of an error message, as APIServer parses it back out
CodeOf(msg) == IF Len(msg) = 0 THEN None ELSE msg[1]

\* ----------------------------------------------------------- input domains
\* ServerConfig: package?, url?, transport?
StdioCfg == [package |-> TRUE, url |-> None, transport |-> None]
HttpCfg == [package |-> FALSE, url |-> "ok", transport |-> None]
BadUrlCfg == [package |-> FALSE, url |-> "bad", transport |-> None]
BothCfg == [package |-> TRUE, url |-> "ok", transport |-> None]
EmptyCfg == [package |-> FALSE, url |-> None, transport |-> None]
HttpNoUrlCfg == [package |-> TRUE, url |-> None, transport |-> "http"]
Configs == {StdioCfg, HttpCfg, BadUrlCfg, BothCfg, EmptyCfg, HttpNoUrlCfg}

\* tool lists a server can report
ToolLists == {<<"t1">>, <<"t1", "t2">>}

\* error messages of the transport / remote server
NoErr == <<>>
OkResult == <<"OK">>
PlainErr == <<"ECONNREFUSED">>
ZodErr == <<"ZodError", "invalid_type">>
ShapeErr == <<"Expected array", "received string">>
RemoteTimeoutErr == <<"TOOL_TIMEOUT", "upstream">>
ConnectErrs == {PlainErr, ZodErr}
InvokeErrs == {PlainErr, RemoteTimeoutErr}

\* outcomes of the I/O of one connectServer: the error of client.connect, the
\* error of the first listTools, and the tool list obtained (by the first
\* listTools or, after a validation error, by the second; <<>> when it failed)
ConnectOutcomes ==
    [connectErr : {NoErr}, listErr : {NoErr}, tools : ToolLists]
    \cup [connectErr : ConnectErrs, listErr : {NoErr}, tools : {<<>>}]
    \cup [connectErr : {ZodErr}, listErr : {NoErr}, tools : {<<"t1">>}]
    \cup [connectErr : {NoErr}, listErr : {PlainErr, ShapeErr}, tools : {<<>>}]

NoList == <<"none">>
NoEntry == [status |-> "absent"]
NoTimer == [name |-> None]
NoProbe == [name |-> None]
FreeClient == [st |-> "free", onclose |-> None, name |-> None]
NotDeleted == [done |-> FALSE, timer |-> FALSE, open |-> FALSE]
IdleSweep == [active |-> FALSE, pos |-> 0, probe |-> NoProbe]
IdleCall == [pc |-> "idle", server |-> None, seen |-> None, client |-> 0,
             invoked |-> FALSE, invoke |-> None, timer |-> None,
             won |-> None, error |-> <<>>]

VARIABLES
    servers,          \* Gateway.servers: name -> ServerState or NoEntry
    order,            \* insertion order of the keys of Gateway.servers
    clients,          \* the Client objects: transport state, onclose handler,
                      \* the server the client was made for
    reconnectTimers,  \* Gateway.reconnectTimers: name -> timer handle
    timerQ,           \* setTimeout callbacks of scheduleReconnect still pending
    conns,            \* connectServer calls awaiting their I/O
    cfgOps,           \* addServer / removeServer calls inside ConfigManager
                      \* (id tells two calls with equal arguments apart)
    cfgFile,          \* servers section of config.yaml
    healthCheckInterval, \* Gateway.healthCheckInterval is set
    sweep,            \* the running performHealthChecks, if any
    calls,            \* callTool invocations
    shut,             \* position of shutdown()
    phase,            \* "init", "running", "shutting", "stopped"
    initQ,            \* names initialize() has still to connect
    ev,               \* what the step just taken returned or observed
    budget,           \* environment events still allowed in this behaviour
    hist              \* history of what the handlers did, for the properties

vars == <<servers, order, clients, reconnectTimers, timerQ, conns, cfgOps,
          cfgFile, healthCheckInterval, sweep, calls, shut, phase, initQ,
          ev, budget, hist>>

\* ----------------------------------------------------- registry primitives
Present(S, n) == S[n] # NoEntry

\* Map.set of a new key appends it to the iteration order
MapSet(g, n, st) ==
    [g EXCEPT !.servers[n] = st,
              !.order = IF Present(g.servers, n) THEN @ ELSE Append(@, n)]

\* Map.delete
MapDelete(g, n) ==
    [g EXCEPT !.servers[n] = NoEntry,
              !.order = SelectSeq(@, LAMBDA m : m # n)]

\* the ServerState object obj is still the value of servers[n]
IsObj(g, n, obj) == Present(g.servers, n) /\ g.servers[n].obj = obj

\* ids no handler holds any more
UsedObjs == {servers[n].obj : n \in {m \in Names : Present(servers, m)}}
            \cup {c.obj : c \in conns}
            \cup (IF sweep.probe # NoProbe THEN {sweep.probe.obj} ELSE {})
FreeObjs == ObjIds \ UsedObjs
UsedClients == {c \in ClientIds : clients[c].st # "free"}
               \cup {calls[i].client : i \in {j \in CallIds : calls[j].pc = "racing"}}
               \cup (IF sweep.probe # NoProbe THEN {sweep.probe.client} ELSE {})
FreeClients == ClientIds \ UsedClients
Smallest(S) == CHOOSE x \in S : \A y \in S : x <= y

\* --------------------------------------------------------------- Gateway.ts
\* getTransportType: "stdio", "http", or None when it throws INVALID_CONFIG
getTransportType(config) ==
    IF config.transport # None THEN config.transport
    ELSE IF config.url # None THEN "http"
    ELSE IF config.package THEN "stdio"
    ELSE None

\* a cancel that drops the pending timer of every server
clearReconnectTimer_all(g, name) ==
    IF g.reconnectTimers[name] = NoTimer THEN g
    ELSE [g EXCEPT !.timerQ = {},
                   !.reconnectTimers = [n \in Names |-> NoTimer]]

\* clearReconnectTimer
clearReconnectTimer(g, name) ==
    IF g.reconnectTimers[name] = NoTimer THEN g
    ELSE [g EXCEPT !.timerQ = @ \ {g.reconnectTimers[name]},
                   !.reconnectTimers[name] = NoTimer]

\* a budget test that lets one attempt too many through
retriesExhausted_offByOne(reconnectAttempts) ==
    reconnectAttempts > MAX_RECONNECT_ATTEMPTS

\* the budget test at the head of scheduleReconnect
retriesExhausted(reconnectAttempts) ==
    reconnectAttempts >= MAX_RECONNECT_ATTEMPTS

\* a delay computed from the counter after its increment
backoffDelay_afterIncrement(reconnectAttempts) ==
    Min(baseDelay * Pow2(reconnectAttempts + 1), MAX_BACKOFF_DELAY)

\* the delay scheduleReconnect computes from the counter before its increment
backoffDelay(reconnectAttempts) ==
    Min(baseDelay * Pow2(reconnectAttempts), MAX_BACKOFF_DELAY)

\* scheduleReconnect
scheduleReconnect(g, name) ==
    LET serverState == g.servers[name] IN
    IF serverState = NoEntry THEN g
    ELSE IF retriesExhausted(serverState.reconnectAttempts)
    THEN [g EXCEPT !.servers[name].status = "error"]
    ELSE LET delay == backoffDelay(serverState.reconnectAttempts)
             g1 == [g EXCEPT !.servers[name].reconnectAttempts = @ + 1,
                             !.servers[name].status = "reconnecting"]
             g2 == clearReconnectTimer(g1, name)
             timer == [name |-> name, config |-> serverState.config,
                       attempt |-> g1.servers[name].reconnectAttempts,
                       delay |-> delay]
         IN [g2 EXCEPT !.timerQ = @ \cup {timer},
                       !.reconnectTimers[name] = timer]

\* a handler that arms the reconnect and leaves the status as it found it
onclose_keepsStatus(g, name) ==
    IF g.servers[name] = NoEntry THEN g
    ELSE [scheduleReconnect([g EXCEPT !.servers[name].client = 0], name)
             EXCEPT !.servers[name].status = g.servers[name].status]

\* client.onclose installed by setupDisconnectHandler(name, client)
onclose(g, name) ==
    IF g.servers[name] = NoEntry THEN g
    ELSE scheduleReconnect(
             [g EXCEPT !.servers[name].status = "disconnected",
                       !.servers[name].client = 0], name)

\* the transport of client c closes (client.close() or an unsolicited drop):
\* the SDK runs the client's onclose handler, if one is installed
closeClient(g, c) ==
    IF g.clients[c].st # "open" THEN g
    ELSE LET handler == g.clients[c].onclose
             g1 == [g EXCEPT !.clients[c] = FreeClient]
         IN IF handler = None THEN g1 ELSE onclose(g1, handler)

\* the isValidationError test of connectServer
Markers == {"Expected array", "Expected object", "invalid_type", "ZodError"}
\* a test that knows only one of the markers
isValidationError_arrayOnly(msg) == Includes(msg, "Expected array")

isValidationError(msg) == \E w \in Markers : Includes(msg, w)

\* connectServer up to its first await.  Yields the new state, whether the
\* synchronous part threw, and the connect that is now awaiting its I/O.
connectServerStart(g, name, serverConfig, src, obj, client) ==
    LET g1 == IF Present(g.servers, name) THEN g
              ELSE MapSet([g EXCEPT !.hist.removed[name] = "no",
                                   !.hist.atDelete[name] = NotDeleted,
                                   !.hist.revived[name] =
                                       (g.hist.removed[name] # "no"
                                        /\ src # "add")],
                          name,
                          [obj |-> obj, config |-> serverConfig,
                           status |-> "disconnected", client |-> 0,
                           tools |-> <<>>, reconnectAttempts |-> 0,
                           validationWarning |-> FALSE])
        transportType == getTransportType(serverConfig)
    IN IF transportType = "http" /\ serverConfig.url \in {None, "bad"}
       THEN [g |-> [g1 EXCEPT !.servers[name].status = "error"],
             threw |-> TRUE, conn |-> {}]
       ELSE [g |-> [g1 EXCEPT !.clients[client] =
                               [st |-> "new", onclose |-> None,
                                name |-> name]],
             threw |-> FALSE,
             conn |-> {[name |-> name, obj |-> g1.servers[name].obj,
                        client |-> client, src |-> src]}]

\* does this outcome of the I/O make connectServer succeed
Connects(out) ==
    \/ out.connectErr = NoErr /\ out.listErr = NoErr
    \/ out.connectErr # NoErr /\ isValidationError(out.connectErr)
    \/ out.connectErr = NoErr /\ out.listErr # NoErr /\ isValidationError(out.listErr)

hasValidationWarning(out) == out.connectErr # NoErr \/ out.listErr # NoErr

\* a list that keeps what was held when the fetch brings fewer tools
storedTools_merged(held, fetched) ==
    IF Len(held) >= Len(fetched) THEN held ELSE fetched

\* serverState.tools = tools
storedTools(held, fetched) == fetched

\* a successful connect that leaves the retry counter as it was
connectServerSucceed_keepsCounter(g, conn, out) ==
    LET g1 == [g EXCEPT !.clients[conn.client].st = "open"]
        g2 == IF IsObj(g1, conn.name, conn.obj)
              THEN [g1 EXCEPT !.servers[conn.name].client = conn.client,
                              !.servers[conn.name].tools =
                                  storedTools(@, out.tools),
                              !.servers[conn.name].status = "connected",
                              !.servers[conn.name].validationWarning =
                                  hasValidationWarning(out)]
              ELSE g1
        g3 == clearReconnectTimer(g2, conn.name)
    IN [g3 EXCEPT !.clients[conn.client].onclose = conn.name]

\* connectServer from the I/O result to its end, when it succeeds
connectServerSucceed(g, conn, out) ==
    LET g1 == [g EXCEPT !.clients[conn.client].st = "open"]
        g2 == IF IsObj(g1, conn.name, conn.obj)
              THEN [g1 EXCEPT !.servers[conn.name].client = conn.client,
                              !.servers[conn.name].tools =
                                  storedTools(@, out.tools),
                              !.servers[conn.name].status = "connected",
                              !.servers[conn.name].reconnectAttempts = 0,
                              !.servers[conn.name].validationWarning =
                                  hasValidationWarning(out)]
              ELSE g1
        g3 == clearReconnectTimer(g2, conn.name)
    IN [g3 EXCEPT !.clients[conn.client].onclose = conn.name]

\* connectServer from the I/O result to its end, when it throws.  A client
\* whose connect succeeded and whose listTools failed is left open.
connectServerFail(g, conn, out) ==
    LET g1 == [g EXCEPT !.clients[conn.client] =
                   IF out.connectErr = NoErr
                   THEN [@ EXCEPT !.st = "open"] ELSE FreeClient]
    IN IF IsObj(g1, conn.name, conn.obj)
       THEN [g1 EXCEPT !.servers[conn.name].status = "error"]
       ELSE g1

\* ------------------------------------------------------------ state bundle
\* the part of the state the synchronous helpers above read and write
G == [servers |-> servers, order |-> order, clients |-> clients,
      reconnectTimers |-> reconnectTimers, timerQ |-> timerQ, hist |-> hist]

Commit(g) ==
    /\ servers' = g.servers
    /\ order' = g.order
    /\ clients' = g.clients
    /\ reconnectTimers' = g.reconnectTimers
    /\ timerQ' = g.timerQ
    /\ hist' = g.hist

Spend(what) == budget' = [budget EXCEPT ![what] = @ - 1]

NoEv == [type |-> None]
Quiet == ev' = NoEv
Reply(op, name, code) ==
    ev' = [type |-> "reply", op |-> op, name |-> name, code |-> code]

\* ------------------------------------------------------------- ConfigManager
NoCfg == [package |-> FALSE, url |-> None, transport |-> "absent"]
EmptyFile == [n \in Names |-> NoCfg]

\* ----------------------------------------------------------------- addServer
\* a registry lookup that misses every entry
serversHas_never(name) == FALSE

\* this.servers.has(name) of addServer
serversHas(name) == servers[name] # NoEntry

\* addServer up to its first await (the load inside configManager.addServer)
AddServer(name, options) ==
    /\ phase = "running"
    /\ name \in budget.names
    /\ budget.adds > 0
    /\ Spend("adds")
    /\ IF serversHas(name)
       THEN /\ Reply("add", name, "SERVER_ALREADY_EXISTS")
            /\ UNCHANGED cfgOps
       ELSE IF getTransportType(options) = None
       THEN /\ Reply("add", name, "INVALID_CONFIG")
            /\ UNCHANGED cfgOps
       ELSE /\ Quiet
            /\ cfgOps' = cfgOps \cup {[op |-> "add", id |-> budget.adds,
                                       name |-> name, config |-> options,
                                       pc |-> "load", file |-> EmptyFile]}
    /\ UNCHANGED <<servers, order, clients, reconnectTimers, timerQ, conns,
                   cfgFile, healthCheckInterval, sweep, calls, shut, phase,
                   initQ, hist>>

\* ConfigManager.addServer / removeServer: load() returns, the name is checked
CfgLoad(o) ==
    /\ o \in cfgOps
    /\ o.pc = "load"
    /\ IF (o.op = "add") = (cfgFile[o.name] # NoCfg)
       THEN \* "already exists in configuration" / "not found in configuration"
            /\ cfgOps' = cfgOps \ {o}
            /\ Reply(o.op, o.name,
                     IF o.op = "add" THEN "SERVER_ADD_FAILED" ELSE "GATEWAY_ERROR")
       ELSE /\ cfgOps' = (cfgOps \ {o})
                         \cup {[o EXCEPT !.pc = "save", !.file = cfgFile]}
            /\ Quiet
    /\ UNCHANGED <<servers, order, clients, reconnectTimers, timerQ, conns,
                   cfgFile, healthCheckInterval, sweep, calls, shut, phase,
                   initQ, budget, hist>>

\* save() returns: the file now holds what this call loaded, with its change.
\* addServer goes on into connectServer, removeServer returns.
CfgSave(o) ==
    /\ o \in cfgOps
    /\ o.pc = "save"
    /\ cfgOps' = cfgOps \ {o}
    /\ cfgFile' = [o.file EXCEPT ![o.name] =
                       IF o.op = "add" THEN o.config ELSE NoCfg]
    /\ IF o.op = "remove"
       THEN /\ Reply("remove", o.name, "OK")
            /\ UNCHANGED <<servers, order, clients, reconnectTimers, timerQ,
                           conns, hist>>
       ELSE /\ FreeObjs # {} /\ FreeClients # {}
            /\ LET r == connectServerStart(G, o.name, o.config, "add",
                                           Smallest(FreeObjs),
                                           Smallest(FreeClients))
               IN /\ Commit(r.g)
                  /\ conns' = conns \cup r.conn
                  /\ IF r.threw
                     THEN Reply("add", o.name, "SERVER_ADD_FAILED")
                     ELSE Quiet
    /\ UNCHANGED <<healthCheckInterval, sweep, calls, shut, phase, initQ,
                   budget>>

\* -------------------------------------------------------------- connectServer
\* what the remote side did in a handshake, as the wire shows it
ShapeErrs == {ZodErr, ShapeErr}
HandshakeKind(out) ==
    IF out.connectErr \in ShapeErrs \/ out.listErr \in ShapeErrs THEN "shape"
    ELSE IF out.connectErr = NoErr /\ out.listErr = NoErr THEN "clean"
    ELSE "failed"

\* what a finished connectServer shows to an observer: whose handshake it
\* was, whether its ServerState is still the registered one, what the remote
\* side did, the list it reported and the list the entry held before
Handshake(conn, out, code) ==
    ev' = [type |-> "handshake", name |-> conn.name, src |-> conn.src,
           hit |-> IsObj(G, conn.name, conn.obj), kind |-> HandshakeKind(out),
           tools |-> out.tools,
           prior |-> IF IsObj(G, conn.name, conn.obj)
                     THEN servers[conn.name].tools ELSE NoList,
           code |-> code]

\* the I/O of a connectServer returns; the caller's continuation runs too
ConnectDone(conn, out) ==
    /\ conn \in conns
    /\ conns' = conns \ {conn}
    /\ IF Connects(out)
       THEN /\ Commit(connectServerSucceed(G, conn, out))
            /\ UNCHANGED budget
            /\ Handshake(conn, out, IF conn.src = "add" THEN "OK" ELSE None)
       ELSE /\ budget.fails > 0
            /\ Spend("fails")
            /\ Handshake(conn, out, IF conn.src = "add"
                                    THEN "SERVER_ADD_FAILED" ELSE None)
            /\ LET g1 == connectServerFail(G, conn, out)
               IN IF conn.src = "timer"
                  THEN Commit(scheduleReconnect(g1, conn.name))
                  ELSE Commit(g1)
    /\ UNCHANGED <<cfgOps, cfgFile, healthCheckInterval, sweep, calls, shut,
                   phase, initQ>>

\* a reconnect timer fires: its callback runs connectServer up to the await
TimerFire(timer) ==
    /\ timer \in timerQ
    /\ FreeObjs # {} /\ FreeClients # {}
    /\ LET g0 == [G EXCEPT !.timerQ = @ \ {timer},
                           !.reconnectTimers[timer.name] =
                               IF @ = timer THEN NoTimer ELSE @]
           r == connectServerStart(g0, timer.name, timer.config, "timer",
                                   Smallest(FreeObjs), Smallest(FreeClients))
       IN /\ conns' = conns \cup r.conn
          /\ IF r.threw THEN Commit(scheduleReconnect(r.g, timer.name))
             ELSE Commit(r.g)
    /\ UNCHANGED <<cfgOps, cfgFile, healthCheckInterval, sweep, calls, shut,
                   phase, initQ, budget>>
    /\ Quiet

\* the link of an open client drops without close() having been called
Disconnect(c) ==
    /\ clients[c].st = "open"
    /\ budget.drops > 0
    /\ Spend("drops")
    /\ Commit(closeClient(G, c))
    /\ UNCHANGED <<conns, cfgOps, cfgFile, healthCheckInterval, sweep, calls,
                   shut, phase, initQ>>
    /\ Quiet

\* --------------------------------------------------------------- removeServer
\* this.servers.delete(name) of removeServer; the history notes whether the
\* timer of the name was still armed and its client still open at this point
deleteEntry(g, name) ==
    MapDelete([g EXCEPT !.hist.atDelete[name] =
                  [done |-> TRUE,
                   timer |-> g.reconnectTimers[name] # NoTimer,
                   open |-> \E c \in ClientIds :
                                /\ g.servers[name].client = c
                                /\ g.clients[c].st = "open"]],
              name)

\* a teardown in the order timer, connection, entry
removeTeardown_deleteLast(g, name) ==
    LET serverState == g.servers[name]
        g1 == clearReconnectTimer(g, name)
        g2 == IF serverState.client # 0
              THEN closeClient(g1, serverState.client) ELSE g1
    IN deleteEntry(g2, name)

\* a teardown that leaves the reconnect timer armed
removeTeardown_keepsTimer(g, name) ==
    LET serverState == g.servers[name]
        g1 == deleteEntry(g, name)
    IN IF serverState.client # 0
       THEN closeClient(g1, serverState.client) ELSE g1

\* the teardown of removeServer: servers.delete, clearReconnectTimer, close
removeTeardown(g, name) ==
    LET serverState == g.servers[name]
        g1 == deleteEntry(g, name)
        g2 == clearReconnectTimer(g1, name)
    IN IF serverState.client # 0
       THEN closeClient(g2, serverState.client) ELSE g2

\* removeServer up to the await of configManager.removeServer's load
RemoveServer(name) ==
    /\ phase = "running"
    /\ budget.removes > 0
    /\ Spend("removes")
    /\ IF servers[name] = NoEntry
       THEN /\ Reply("remove", name, "SERVER_NOT_FOUND")
            /\ UNCHANGED <<servers, order, clients, reconnectTimers, timerQ,
                           hist, cfgOps>>
       ELSE LET g0 == [G EXCEPT !.hist.removed[name] =
                              IF reconnectTimers[name] \in timerQ
                              THEN "backoff" ELSE "yes"]
            IN /\ Commit(removeTeardown(g0, name))
               /\ Quiet
               /\ cfgOps' = cfgOps \cup {[op |-> "remove", id |-> budget.removes,
                                          name |-> name, config |-> NoCfg,
                                          pc |-> "load", file |-> EmptyFile]}
    /\ sweep' = IF Present(servers, name) /\ IndexOf(order, name) <= sweep.pos
                 THEN [sweep EXCEPT !.pos = @ - 1] ELSE sweep
    /\ UNCHANGED <<conns, cfgFile, healthCheckInterval, calls, shut, phase,
                   initQ>>

\* ------------------------------------------------------- performHealthChecks
RECURSIVE NextProbe(_, _)
\* the for-loop of performHealthChecks from Map position pos up to its next
\* await: entries that are not connected are passed over
NextProbe(g, pos) ==
    IF pos >= Len(g.order) THEN IdleSweep
    ELSE LET name == g.order[pos + 1]
             state == g.servers[name]
         IN IF state.status = "connected" /\ state.client # 0
            THEN [active |-> TRUE, pos |-> pos + 1,
                  probe |-> [name |-> name, obj |-> state.obj,
                             client |-> state.client]]
            ELSE NextProbe(g, pos + 1)

\* the setInterval callback of startHealthMonitoring
HealthTick ==
    /\ healthCheckInterval
    /\ ~sweep.active
    /\ budget.ticks > 0
    /\ Spend("ticks")
    /\ sweep' = NextProbe(G, 0)
    /\ UNCHANGED <<servers, order, clients, reconnectTimers, timerQ, conns,
                   cfgOps, cfgFile, healthCheckInterval, calls, shut, phase,
                   initQ, hist>>
    /\ Quiet

\* the probe (listTools raced against 5000 ms) of the current entry returns
ProbeDone(ok) ==
    /\ sweep.probe # NoProbe
    /\ LET p == sweep.probe IN
       IF ok
       THEN /\ clients[p.client].st = "open"
            /\ sweep' = NextProbe(G, sweep.pos)
            /\ UNCHANGED <<servers, order, clients, reconnectTimers, timerQ,
                           hist, budget>>
       ELSE /\ budget.probeFails > 0
            /\ Spend("probeFails")
            /\ LET g1 == IF IsObj(G, p.name, p.obj)
                         THEN [G EXCEPT !.servers[p.name].status = "disconnected",
                                        !.servers[p.name].client = 0]
                         ELSE G
                   g2 == scheduleReconnect(g1, p.name)
               IN /\ Commit(g2)
                  /\ sweep' = NextProbe(g2, sweep.pos)
    /\ UNCHANGED <<conns, cfgOps, cfgFile, healthCheckInterval, calls, shut,
                   phase, initQ>>
    /\ Quiet

\* -------------------------------------------------------------------- callTool
TimeoutError == <<"TOOL_TIMEOUT", "Tool execution exceeded timeout">>

\* a rejection that reports every unusable server as unknown
callToolReject_notFound(serverState) ==
    IF serverState = NoEntry
       \/ serverState.status # "connected" \/ serverState.client = 0
    THEN <<"SERVER_NOT_FOUND">>
    ELSE NoErr

\* the two checks at the head of callTool: what it throws, NoErr to go on
callToolReject(serverState) ==
    IF serverState = NoEntry THEN <<"SERVER_NOT_FOUND">>
    ELSE IF serverState.status # "connected" \/ serverState.client = 0
    THEN <<"SERVER_DISCONNECTED">>
    ELSE NoErr

\* callTool up to the await of Promise.race
CallTool(i, serverName) ==
    /\ phase = "running"
    /\ calls[i].pc = "idle"
    /\ \A j \in 1..(i - 1) : calls[j].pc # "idle"
    /\ budget.calls > 0
    /\ Spend("calls")
    /\ LET serverState == servers[serverName]
           c == [IdleCall EXCEPT !.server = serverName,
                                 !.seen = serverState.status]
       IN calls' = [calls EXCEPT ![i] =
            IF callToolReject(serverState) # NoErr
            THEN [c EXCEPT !.pc = "done", !.error = callToolReject(serverState)]
            ELSE [c EXCEPT !.pc = "racing", !.client = serverState.client,
                           !.invoked = TRUE, !.invoke = "pending",
                           !.timer = "pending"]]
    /\ UNCHANGED <<servers, order, clients, reconnectTimers, timerQ, conns,
                   cfgOps, cfgFile, healthCheckInterval, sweep, shut, phase,
                   initQ, hist>>
    /\ Quiet

\* what callTool throws when the awaited race rejects with message msg
callToolCatch(msg) ==
    IF Includes(msg, "TOOL_TIMEOUT") THEN msg
    ELSE <<"TOOL_EXECUTION_ERROR">> \o msg

\* a settlement that reaches the caller even after the race is over
settleInvoke_late(call, res) ==
    [call EXCEPT !.pc = "done", !.invoke = "settled",
                 !.error = IF res = OkResult THEN OkResult
                           ELSE callToolCatch(res)]

\* the call after client.callTool settled with res: the race, when still
\* open, ends with it; once the race is over the settlement is dropped
settleInvoke(call, res) ==
    IF call.pc = "racing"
    THEN [call EXCEPT !.pc = "done", !.invoke = "settled", !.timer = "moot",
                      !.won = "invoke",
                      !.error = IF res = OkResult THEN OkResult
                                ELSE callToolCatch(res)]
    ELSE [call EXCEPT !.invoke = "settled"]

\* a settlement whose failure is taken for the loss of the connection
InvokeSettle_marksDisconnected(i, res) ==
    /\ calls[i].invoke = "pending"
    /\ res = OkResult => clients[calls[i].client].st = "open"
    /\ calls' = [calls EXCEPT ![i] = settleInvoke(@, res)]
    /\ servers' = IF res # OkResult /\ servers[calls[i].server] # NoEntry
                  THEN [servers EXCEPT ![calls[i].server].status = "disconnected"]
                  ELSE servers
    /\ UNCHANGED <<order, clients, reconnectTimers, timerQ, conns,
                   cfgOps, cfgFile, healthCheckInterval, sweep, shut, phase,
                   initQ, budget, hist>>
    /\ Quiet

\* a settlement delivered to every call that is waiting, not only to its own
InvokeSettle_shared(i, res) ==
    /\ calls[i].invoke = "pending"
    /\ res = OkResult => clients[calls[i].client].st = "open"
    /\ calls' = [j \in CallIds |->
                    IF j = i \/ calls[j].pc = "racing"
                    THEN settleInvoke(calls[j], res) ELSE calls[j]]
    /\ UNCHANGED <<servers, order, clients, reconnectTimers, timerQ, conns,
                   cfgOps, cfgFile, healthCheckInterval, sweep, shut, phase,
                   initQ, budget, hist>>
    /\ Quiet

\* client.callTool settles: res is OkResult or the message it rejects with
InvokeSettle(i, res) ==
    /\ calls[i].invoke = "pending"
    /\ res = OkResult => clients[calls[i].client].st = "open"
    /\ calls' = [calls EXCEPT ![i] = settleInvoke(@, res)]
    /\ UNCHANGED <<servers, order, clients, reconnectTimers, timerQ, conns,
                   cfgOps, cfgFile, healthCheckInterval, sweep, shut, phase,
                   initQ, budget, hist>>
    /\ Quiet

\* the setTimeout of callTool fires first and rejects timeoutPromise (when
\* the invoke has won the race the timer's late firing changes nothing and is
\* not a step of the model)
TimeoutFire(i) ==
    /\ calls[i].timer = "pending"
    /\ calls' = [calls EXCEPT ![i] =
         [@ EXCEPT !.pc = "done", !.timer = "fired", !.won = "timer",
                   !.error = callToolCatch(TimeoutError)]]
    /\ UNCHANGED <<servers, order, clients, reconnectTimers, timerQ, conns,
                   cfgOps, cfgFile, healthCheckInterval, sweep, shut, phase,
                   initQ, budget, hist>>
    /\ Quiet

\* -------------------------------------------------------------------- shutdown
RECURSIVE CloseNext(_, _)
\* the second for-loop of shutdown from Map position pos up to its next await
\* (the close() of the next entry that has a client) or to servers.clear()
CloseNext(g, pos) ==
    IF pos >= Len(g.order)
    THEN [g |-> [g EXCEPT !.servers = [n \in Names |-> NoEntry],
                          !.order = <<>>],
          pos |-> 0, done |-> TRUE]
    ELSE LET state == g.servers[g.order[pos + 1]]
         IN IF state.client # 0
            THEN [g |-> closeClient(g, state.client), pos |-> pos + 1,
                  done |-> FALSE]
            ELSE CloseNext(g, pos + 1)

RECURSIVE ClearAll(_, _)
\* the first for-loop of shutdown: clearReconnectTimer for every handle
ClearAll(g, S) ==
    IF S = {} THEN g
    ELSE LET n == CHOOSE m \in S : TRUE
         IN ClearAll(clearReconnectTimer(g, n), S \ {n})

\* shutdown up to its first await
Shutdown ==
    /\ phase = "running"
    /\ budget.shutdowns > 0
    /\ Spend("shutdowns")
    /\ healthCheckInterval' = FALSE
    /\ LET r == CloseNext(ClearAll(G, Names), 0)
       IN /\ Commit(r.g)
          /\ shut' = r.pos
          /\ phase' = IF r.done THEN "stopped" ELSE "shutting"
    /\ UNCHANGED <<conns, cfgOps, cfgFile, sweep, calls, initQ>>
    /\ Quiet

\* an awaited client.close() of shutdown returns
ShutdownStep ==
    /\ phase = "shutting"
    /\ LET r == CloseNext(G, shut)
       IN /\ Commit(r.g)
          /\ shut' = r.pos
          /\ phase' = IF r.done THEN "stopped" ELSE "shutting"
    /\ UNCHANGED <<conns, cfgOps, cfgFile, healthCheckInterval, sweep, calls,
                   initQ, budget>>
    /\ Quiet

\* ------------------------------------------------------------------ initialize
\* initialize: the next connectServer of its for-loop, up to the await
InitConnect ==
    /\ phase = "init"
    /\ initQ # <<>>
    /\ \A c \in conns : c.src # "init"
    /\ FreeObjs # {} /\ FreeClients # {}
    /\ LET name == Head(initQ)
           r == connectServerStart(G, name, cfgFile[name], "init",
                                   Smallest(FreeObjs), Smallest(FreeClients))
       IN /\ Commit(r.g)
          /\ conns' = conns \cup r.conn
    /\ initQ' = Tail(initQ)
    /\ UNCHANGED <<cfgOps, cfgFile, healthCheckInterval, sweep, calls, shut,
                   phase, budget>>
    /\ Quiet

\* initialize: the loop is over, startHealthMonitoring, the API starts
InitDone ==
    /\ phase = "init"
    /\ initQ = <<>>
    /\ \A c \in conns : c.src # "init"
    /\ healthCheckInterval' = TRUE
    /\ phase' = "running"
    /\ UNCHANGED <<servers, order, clients, reconnectTimers, timerQ, conns,
                   cfgOps, cfgFile, sweep, calls, shut, initQ, budget,
                   hist>>
    /\ Quiet

\* ------------------------------------------------------------- specification
\* environments explored: the config file found at start-up, the names the
\* operator adds, and how many of each outside event a behaviour may hold
MaxAdds == 2
MaxRemoves == 1
MaxDrops == 1
MaxFails == 1
MaxTicks == 1
MaxProbeFails == 1
FileA == [EmptyFile EXCEPT !["a"] = StdioCfg]
NoEvents == [file |-> EmptyFile, names |-> {}, adds |-> 0, removes |-> 0,
             drops |-> 0, fails |-> 0, ticks |-> 0, probeFails |-> 0,
             calls |-> 0, shutdowns |-> 0]
\* one server losing its link and failing every reconnect
Exhaust == [NoEvents EXCEPT !.file = FileA, !.drops = MaxDrops, !.calls = 1,
                            !.fails = MAX_RECONNECT_ATTEMPTS + MaxFails,
                            !.ticks = MaxTicks, !.probeFails = MaxProbeFails]
\* one name added, removed and added again
Churn == [NoEvents EXCEPT !.names = {"a"}, !.adds = MaxAdds,
                          !.removes = MaxRemoves, !.drops = MaxDrops,
                          !.fails = MaxFails]
\* two servers and concurrent calls
Dispatch == [NoEvents EXCEPT !.file = FileA, !.names = {"b"}, !.adds = 1,
                             !.drops = MaxDrops, !.calls = MaxCalls]
\* two servers, health sweep and shutdown
Sweep == [NoEvents EXCEPT !.file = FileA, !.names = {"b"}, !.adds = 1,
                          !.ticks = MaxTicks, !.probeFails = MaxProbeFails,
                          !.fails = MaxFails, !.shutdowns = 1]
\* two servers added side by side, each losing its link
Pair == [NoEvents EXCEPT !.names = {"a", "b"}, !.adds = MaxAdds,
                         !.drops = MaxDrops + 1]
Scenarios == {Exhaust, Churn, Dispatch, Sweep, Pair}

Init ==
    /\ budget \in Scenarios
    /\ servers = [n \in Names |-> NoEntry]
    /\ order = <<>>
    /\ clients = [c \in ClientIds |-> FreeClient]
    /\ reconnectTimers = [n \in Names |-> NoTimer]
    /\ timerQ = {}
    /\ conns = {}
    /\ cfgOps = {}
    /\ cfgFile = budget.file
    /\ healthCheckInterval = FALSE
    /\ sweep = IdleSweep
    /\ calls = [i \in CallIds |-> IdleCall]
    /\ shut = 0
    /\ phase = "init"
    /\ initQ = IF cfgFile["a"] # NoCfg THEN <<"a">> ELSE <<>>
    /\ ev = NoEv
    /\ hist = [removed |-> [n \in Names |-> "no"],
               atDelete |-> [n \in Names |-> NotDeleted],
               revived |-> [n \in Names |-> FALSE]]

AddInputs == {StdioCfg, BadUrlCfg, BothCfg, EmptyCfg}

Next ==
    \/ \E n \in Names, o \in AddInputs : AddServer(n, o)
    \/ \E o \in cfgOps : CfgLoad(o)
    \/ \E o \in cfgOps : CfgSave(o)
    \/ \E c \in conns, out \in ConnectOutcomes : ConnectDone(c, out)
    \/ \E t \in timerQ : TimerFire(t)
    \/ \E c \in ClientIds : Disconnect(c)
    \/ \E n \in Names : RemoveServer(n)
    \/ HealthTick
    \/ \E ok \in BOOLEAN : ProbeDone(ok)
    \/ \E i \in CallIds, n \in Names : CallTool(i, n)
    \/ \E i \in CallIds, res \in {OkResult} \cup InvokeErrs : InvokeSettle(i, res)
    \/ \E i \in CallIds : TimeoutFire(i)
    \/ Shutdown
    \/ ShutdownStep
    \/ InitConnect
    \/ InitDone

Spec == Init /\ [][Next]_vars

TypeOK ==
    /\ \A n \in Names : servers[n] = NoEntry \/ servers[n].obj \in ObjIds
    /\ \A n \in Names : Present(servers, n) =>
           servers[n].reconnectAttempts \in 0..MAX_RECONNECT_ATTEMPTS

\* ------------------------------------------------------------------ queries
\* getServerTools: the list returned, or the error thrown
getServerTools(serverName) ==
    IF servers[serverName] = NoEntry THEN <<"SERVER_NOT_FOUND">>
    ELSE servers[serverName].tools

\* ================================================================ properties
Occurrences(s, x) == Cardinality({i \in 1..Len(s) : s[i] = x})
Registry == <<servers, order, clients, reconnectTimers, timerQ>>

\* C1: the registry holds at most one entry per name, and an addServer of a
\* name that is in the registry fails with SERVER_ALREADY_EXISTS and changes
\* nothing of the registry (entries, clients, timers); only an addServer of
\* an absent name goes on to the configuration and the connect.
C1_OneEntryPerName ==
    \A n \in Names : Occurrences(order, n) = IF Present(servers, n) THEN 1 ELSE 0
C1_AddStep ==
    budget'.adds # budget.adds =>
        IF cfgOps' # cfgOps
        THEN \A o \in cfgOps' \ cfgOps : ~Present(servers, o.name)
        ELSE /\ ev'.type = "reply" /\ ev'.op = "add"
             /\ IF Present(servers, ev'.name)
                THEN ev'.code = "SERVER_ALREADY_EXISTS" /\ UNCHANGED Registry
                ELSE ev'.code = "INVALID_CONFIG"
C1_DuplicateAddRejected == []C1_OneEntryPerName /\ [][C1_AddStep]_vars
C1_Witness ==
    /\ ev.type = "reply" /\ ev.op = "add"
    /\ ev.code = "SERVER_ALREADY_EXISTS"
    /\ Present(servers, ev.name)
    /\ servers[ev.name].status = "connected"

\* C2: a callTool that finds the server in a status other than connected
\* fails at once with SERVER_DISCONNECTED and never calls client.callTool; one
\* that finds no entry fails with SERVER_NOT_FOUND.
C2_FailFast ==
    \A i \in CallIds :
        /\ calls[i].seen = "absent" =>
               /\ calls[i].pc = "done" /\ ~calls[i].invoked
               /\ calls[i].error = <<"SERVER_NOT_FOUND">>
        /\ calls[i].seen \in {"disconnected", "reconnecting", "error"} =>
               /\ calls[i].pc = "done" /\ ~calls[i].invoked
               /\ calls[i].error = <<"SERVER_DISCONNECTED">>
C2_Witness ==
    \E i \in CallIds : calls[i].seen = "reconnecting" /\ calls[i].pc = "done"

\* C3: when the timeout fires before the invoke settles the call fails with
\* TOOL_TIMEOUT, and nothing that happens later, the late settlement of the
\* abandoned invoke included, changes the outcome of a finished call.
C3_TimedOut ==
    \A i \in CallIds : calls[i].won = "timer" =>
        calls[i].pc = "done" /\ CodeOf(calls[i].error) = "TOOL_TIMEOUT"
C3_OutcomeFinal ==
    \A i \in CallIds : calls[i].pc = "done" =>
        calls'[i].pc = "done" /\ calls'[i].error = calls[i].error
C3_TimeoutWins == []C3_TimedOut /\ [][C3_OutcomeFinal]_vars
C3_Witness ==
    \E i \in CallIds : calls[i].won = "timer" /\ calls[i].invoke = "settled"

\* C4: no timer is ever armed for an attempt beyond the 10th; when a
\* reconnect attempt fails with the counter at its maximum the server goes to
\* error and no timer or connect is started; a server in error with its
\* budget spent and no attempt pending stays so until its entry leaves the
\* registry, and every callTool that finds it in error fails with
\* SERVER_DISCONNECTED.
Pending(n) ==
    \/ \E t \in timerQ : t.name = n
    \/ \E c \in conns : c.name = n
    \/ \E o \in cfgOps : o.op = "add" /\ o.name = n
Exhausted(n) ==
    /\ Present(servers, n)
    /\ servers[n].status = "error"
    /\ servers[n].reconnectAttempts >= MAX_RECONNECT_ATTEMPTS
    /\ ~Pending(n)
C4_Terminal ==
    \A n \in Names : Exhausted(n) => Exhausted(n)' \/ ~Present(servers', n)
C4_LastFailure ==
    \A c \in conns \ conns' :
        (/\ c.src = "timer"
         /\ IsObj(G, c.name, c.obj)
         /\ servers[c.name].reconnectAttempts >= MAX_RECONNECT_ATTEMPTS
         /\ ev'.type = "handshake" /\ ev'.kind = "failed")
        => /\ servers'[c.name].status = "error"
           /\ timerQ' \subseteq timerQ
           /\ conns' \subseteq conns
C4_NoEleventh ==
    \A t \in timerQ : t.attempt <= MAX_RECONNECT_ATTEMPTS
C4_Calls ==
    \A i \in CallIds : calls[i].seen = "error" =>
        calls[i].error = <<"SERVER_DISCONNECTED">>
C4_ExhaustionTerminal ==
    /\ [](C4_NoEleventh /\ C4_Calls)
    /\ [][C4_Terminal /\ C4_LastFailure]_vars
C4_Witness ==
    \E n \in Names :
        /\ Exhausted(n)
        /\ \E i \in CallIds : calls[i].server = n /\ calls[i].seen = "error"

\* C5: the timer armed for reconnect attempt n (1..10) has delay
\* min(1000 * 2^(n-1), 30000): 1000, 2000, 4000, 8000, 16000, then 30000.
DelaySeq == <<1000, 2000, 4000, 8000, 16000, 30000, 30000, 30000, 30000, 30000>>
C5_BackoffSequence ==
    \A t \in timerQ :
        /\ t.attempt \in 1..10
        /\ t.delay = DelaySeq[t.attempt]
        /\ t.delay = Min(1000 * Pow2(t.attempt - 1), 30000)
C5_Witness == \E t \in timerQ : t.attempt = 10 /\ t.delay = 30000

\* C6: a server whose status is connected has retry counter 0.
C6_ConnectedCounterZero ==
    \A n \in Names :
        Present(servers, n) /\ servers[n].status = "connected" =>
            servers[n].reconnectAttempts = 0
C6_Witness ==
    /\ ev.type = "handshake" /\ ev.src = "timer" /\ ev.hit
    /\ servers[ev.name].status = "connected"
    /\ servers[ev.name].reconnectAttempts = 0

\* C7: from removeServer(name) until the name is added again there is no
\* entry and no reconnect timer for it, and nothing but an addServer creates
\* an entry for it (no timer or other handler starts a connect); an entry
\* that is created starts with retry counter 0.
C7_Removed ==
    \A n \in Names :
        /\ ~hist.revived[n]
        /\ hist.removed[n] # "no" =>
               /\ ~Present(servers, n)
               /\ reconnectTimers[n] = NoTimer
               /\ \A t \in timerQ : t.name # n
C7_FreshCounter ==
    \A n \in Names :
        ~Present(servers, n) /\ Present(servers', n) =>
            servers'[n].reconnectAttempts = 0
C7_RemovalCleanup == []C7_Removed /\ [][C7_FreshCounter]_vars
C7_Witness ==
    \E n \in Names : hist.removed[n] = "backoff" /\ \E c \in conns : c.name = n

\* C8: the list getServerTools returns for a server is the one its most
\* recent successful handshake fetched: a successful connect replaces the
\* list by the fetched one, and nothing else changes the list of an entry.
C8_Fetched ==
    (ev.type = "handshake" /\ ev.hit /\ ev.kind # "failed") =>
        /\ servers[ev.name].status = "connected"
        /\ getServerTools(ev.name) = ev.tools
C8_OnlyHandshake ==
    \A n \in Names :
        (/\ Present(servers, n) /\ Present(servers', n)
         /\ servers'[n].obj = servers[n].obj
         /\ servers'[n].tools # servers[n].tools)
        => /\ ev'.type = "handshake" /\ ev'.name = n /\ ev'.hit
           /\ ev'.kind # "failed"
C8_CapabilityRefresh == []C8_Fetched /\ [][C8_OnlyHandshake]_vars
C8_Witness ==
    /\ ev.type = "handshake" /\ ev.src = "timer" /\ ev.hit
    /\ ev.prior = <<"t1", "t2">> /\ ev.tools = <<"t1">>
    /\ getServerTools(ev.name) = <<"t1">>

\* C9: a handshake answered with a schema-shape error leaves the server
\* connected with the validation warning set, and getServerTools returns the
\* list of the best-effort fetch (empty when that failed), not an error; a
\* handshake without any error leaves it connected with the warning cleared.
C9_DegradedConnect ==
    (ev.type = "handshake" /\ ev.hit) =>
        /\ ev.kind = "shape" =>
               /\ servers[ev.name].status = "connected"
               /\ servers[ev.name].validationWarning
               /\ getServerTools(ev.name) = ev.tools
               /\ ev.tools \in ToolLists \cup {<<>>}
        /\ ev.kind = "clean" =>
               /\ servers[ev.name].status = "connected"
               /\ ~servers[ev.name].validationWarning
C9_Witness ==
    /\ ev.type = "handshake" /\ ev.hit /\ ev.kind = "shape"
    /\ ev.tools = <<>>
    /\ servers[ev.name].validationWarning

\* C10: of two calls to different servers, one found connected and one found
\* not connected, the second fails with SERVER_DISCONNECTED and the first is
\* invoked and ends with its own result, error or timeout; a step that
\* changes one call leaves the other as it is.
C10_Outcomes ==
    \A i, j \in CallIds :
        (/\ i # j
         /\ calls[i].pc # "idle" /\ calls[j].pc # "idle"
         /\ calls[i].server # calls[j].server
         /\ calls[i].seen = "connected"
         /\ calls[j].seen \in {"disconnected", "reconnecting", "error"})
        => /\ calls[j].error = <<"SERVER_DISCONNECTED">>
           /\ calls[i].invoked
           /\ \/ calls[i].pc = "racing"
              \/ CodeOf(calls[i].error) \in
                     {"OK", "TOOL_EXECUTION_ERROR", "TOOL_TIMEOUT"}
C10_Frame ==
    \A i, j \in CallIds :
        i # j /\ calls'[i] # calls[i] => calls'[j] = calls[j]
C10_DispatchIsolation == []C10_Outcomes /\ [][C10_Frame]_vars
C10_Witness ==
    /\ calls[1].pc = "racing"
    /\ calls[2].pc = "done" /\ calls[2].error = <<"SERVER_DISCONNECTED">>
    /\ calls[1].server # calls[2].server

\* the clients of connections to server n that were opened and not closed
Live(n) == {c \in ClientIds : clients[c].st = "open" /\ clients[c].name = n}

\* C11: in every reachable state at most one live (opened and not yet
\* closed) connection object exists per server name.
C11_OneLiveConnection == \A n \in Names : Cardinality(Live(n)) <= 1

\* C12: when the connect that addServer performs fails with a transient
\* error, the add does not fail: the entry is kept, the failed attempt is
\* counted and a reconnect timer is armed.
C12_FirstFailureRetried ==
    (ev.type = "handshake" /\ ev.src = "add" /\ ev.hit
     /\ ev.kind = "failed") =>
        /\ ev.code # "SERVER_ADD_FAILED"
        /\ Present(servers, ev.name)
        /\ servers[ev.name].reconnectAttempts >= 1
        /\ reconnectTimers[ev.name] \in timerQ

\* a config with exactly one of package and url, the url well-formed
ValidConfig(config) ==
    /\ config.package # (config.url # None)
    /\ config.url # "bad"

\* C13: an addServer with an invalid config (neither package nor url, both
\* of them, or a url that does not parse) fails at once and creates nothing:
\* no such config goes on to the configuration file or into the registry.
C13_InvalidConfigRejected ==
    /\ \A o \in cfgOps : o.op = "add" => ValidConfig(o.config)
    /\ \A n \in Names : Present(servers, n) => ValidConfig(servers[n].config)
    /\ \A n \in Names : cfgFile[n] # NoCfg => ValidConfig(cfgFile[n])

\* C14: a server is in status error only when its retry budget is used up:
\* status error implies that all MAX_RECONNECT_ATTEMPTS attempts were made.
C14_ErrorOnlyAfterExhaustion ==
    \A n \in Names :
        (Present(servers, n) /\ servers[n].status = "error") =>
            servers[n].reconnectAttempts = MAX_RECONNECT_ATTEMPTS

\* C15: once shutdown() has completed, the health monitor is stopped, no
\* reconnect timer is pending, no connection is open and the registry is
\* empty, and this stays so whatever happens afterwards.
C15_ShutdownFinal ==
    phase = "stopped" =>
        /\ ~healthCheckInterval
        /\ timerQ = {}
        /\ \A n \in Names : reconnectTimers[n] = NoTimer
        /\ \A n \in Names : ~Present(servers, n)
        /\ \A c \in ClientIds : clients[c].st # "open"

\* toolCount of the entry getServerInfo builds for a server
toolCount(serverName) == Len(servers[serverName].tools)

\* C16: a server that is not connected (disconnected, reconnecting or in
\* error) holds no capability list: getServerTools returns the empty list
\* and getServerInfo reports toolCount 0.
C16_NoStaleTools ==
    \A n \in Names :
        (Present(servers, n) /\ servers[n].status # "connected") =>
            getServerTools(n) = <<>> /\ toolCount(n) = 0

\* something is under way that will move server n on: a reconnect timer that
\* has not fired or a connect attempt that has not returned
Underway(n) ==
    \/ \E t \in timerQ : t.name = n
    \/ \E c \in conns : c.name = n

\* C17: a server that is disconnected or reconnecting does not stay so for
\* ever.  Its status changes only when a reconnect timer fires or a connect
\* attempt returns, so in every state in which it is disconnected or
\* reconnecting (and the gateway is not shutting down) one of the two is
\* under way for it.
C17_ReconnectUnderway ==
    \A n \in Names :
        (phase \in {"init", "running"}
         /\ Present(servers, n)
         /\ servers[n].status \in {"disconnected", "reconnecting"})
        => Underway(n)

\* C18: no reconnect timer is pending for a server whose status is connected,
\* and the step in which the client of a connected server closes, or in which
\* its health probe fails, takes the status out of connected: a callTool
\* handled afterwards finds the server not connected.
C18_NoTimerWhileConnected ==
    \A n \in Names :
        (Present(servers, n) /\ servers[n].status = "connected") =>
            /\ reconnectTimers[n] = NoTimer
            /\ \A t \in timerQ : t.name # n
C18_StatusLeaves ==
    \A n \in Names :
        (/\ Present(servers, n) /\ Present(servers', n)
         /\ servers[n].status = "connected" /\ servers[n].client # 0
         /\ \/ /\ clients[servers[n].client].st = "open"
               /\ clients'[servers[n].client].st # "open"
            \/ /\ sweep.probe # NoProbe /\ sweep.probe.name = n
               /\ budget'.probeFails < budget.probeFails)
        => servers'[n].status # "connected"
C18_StatusBeforeReconnect ==
    []C18_NoTimerWhileConnected /\ [][C18_StatusLeaves]_vars
C18_Witness ==
    \E i \in CallIds, n \in Names :
        /\ calls[i].server = n /\ calls[i].seen = "reconnecting"
        /\ calls[i].error = <<"SERVER_DISCONNECTED">>
        /\ reconnectTimers[n] \in timerQ
        /\ servers[n].reconnectAttempts = 1

\* the reconnect attempts for server n whose connect has not returned
Attempts(n) == {c \in conns : c.name = n /\ c.src = "timer"}

\* C19: the reconnect attempts of a server are strictly sequential: at most
\* one of them is in flight at any time, and no timer for a next attempt is
\* armed while one is in flight (while the gateway is not shutting down).
C19_SequentialReconnects ==
    phase \in {"init", "running"} =>
        \A n \in Names :
            /\ Cardinality(Attempts(n)) <= 1
            /\ Attempts(n) # {} => \A t \in timerQ : t.name # n

\* C20 as claimed: when removeServer deletes the registry entry, the
\* reconnect timer of the server has already been cancelled and its
\* connection has already been closed.
C20_CleanupBeforeDelete ==
    \A n \in Names :
        hist.atDelete[n].done =>
            ~hist.atDelete[n].timer /\ ~hist.atDelete[n].open

\* C20 as amended: removeServer, from any state of the server, deletes the
\* registry entry first (its timer and its client are at that point as the
\* call found them) and then, in the same run, cancels the reconnect timer
\* and closes the client: after the step the name is absent, no timer is
\* pending for it and its client is closed.
C20_RemoveStep ==
    \A n \in Names :
        (Present(servers, n) /\ ~Present(servers', n) /\ phase' = "running")
        => /\ reconnectTimers'[n] = NoTimer
           /\ \A t \in timerQ' : t.name # n
           /\ servers[n].client # 0 =>
                  clients'[servers[n].client].st # "open"
           /\ hist'.atDelete[n] =
                  [done |-> TRUE,
                   timer |-> reconnectTimers[n] # NoTimer,
                   open |-> \E c \in ClientIds :
                                servers[n].client = c /\ clients[c].st = "open"]
C20_DeleteThenCleanup == [][C20_RemoveStep]_vars
C20_Witness ==
    \E n \in Names :
        /\ hist.atDelete[n].done /\ hist.atDelete[n].open
        /\ ~Present(servers, n)
        /\ \A c \in ClientIds : clients[c].name = n => clients[c].st # "open"

\* ------------------------------------------------------------------------ C21
\* what the gateway holds for one name: its entry (status, client, capability
\* list, retry counter) and its pending reconnect timer
View(n) == <<servers[n], reconnectTimers[n], {t \in timerQ : t.name = n}>>
Others(x) == \A y \in Names \ {x} : View(y)' = View(y)

\* C21: each per-server event on a server X (its reconnect timer firing, being
\* armed or cancelled, its connect attempt returning, its probe failing, its
\* link dropping, its removal) leaves the status, client, capability list,
\* retry counter and reconnect timer of every other server unchanged
C21_Step ==
    /\ \A t \in timerQ : Others(t.name) \/ ~TimerFire(t)
    /\ \A c \in conns :
           Others(c.name) \/ ~\E out \in ConnectOutcomes : ConnectDone(c, out)
    /\ \A c \in ClientIds :
           clients[c].name # None => Others(clients[c].name) \/ ~Disconnect(c)
    /\ \A n \in Names : Others(n) \/ ~RemoveServer(n)
    /\ sweep.probe # NoProbe => Others(sweep.probe.name) \/ ~ProbeDone(FALSE)
C22_InvokeFailureWrapped ==
    \A i \in CallIds : calls[i].pc = "done" =>
        /\ calls[i].won = "invoke" /\ calls[i].error # OkResult =>
               /\ CodeOf(calls[i].error) = "TOOL_EXECUTION_ERROR"
               /\ \E msg \in InvokeErrs :
                      calls[i].error = <<"TOOL_EXECUTION_ERROR">> \o msg
        /\ CodeOf(calls[i].error) = "TOOL_TIMEOUT" => calls[i].won = "timer"

\* ------------------------------------------------------------------------ C23
\* C23: a step of a callTool (its entry checks, the settlement of its invoke,
\* its timeout), whatever the outcome, leaves the status, client, capability
\* list, retry counter and reconnect timer of every server unchanged and
\* starts no connect; a call invokes the capability at most once and a
\* finished call is not started again
C23_Step ==
    \A i \in CallIds : calls'[i] # calls[i] =>
        /\ Registry' = Registry
        /\ conns' = conns
        /\ calls[i].invoke # "pending" /\ calls'[i].invoke = "pending"
               => calls[i].pc = "idle"
        /\ calls[i].pc = "done" => calls'[i].pc = "done"
C23_CallLeavesRegistry == [][C23_Step]_vars
\* both calls are over, one by an invoke failure and one by the timeout, and
\* the server they went to is still connected
C23_Witness ==
    /\ calls[1].pc = "done" /\ calls[2].pc = "done"
    /\ CodeOf(calls[1].error) = "TOOL_EXECUTION_ERROR"
    /\ CodeOf(calls[2].error) = "TOOL_TIMEOUT"
    /\ calls[1].server = calls[2].server
    /\ servers[calls[1].server].status = "connected"

\* ------------------------------------------------------------------------ C24
\* the connected servers that the running sweep has yet to reach
Unprobed ==
    {y \in Names : /\ Present(servers, y)
                   /\ IndexOf(order, y) > sweep.pos
                   /\ servers[y].status = "connected"
                   /\ servers[y].client # 0}

\* C24: within a health sweep no connected server waits for its probe while
\* the probe of another server has not yet returned or timed out: the tick
\* that issues the first probe of a sweep leaves no connected server unprobed
C24_TickStep == sweep.probe = NoProbe /\ sweep'.probe # NoProbe => Unprobed' = {}
C24_ProbesDoNotWait == [][C24_TickStep]_vars

\* ------------------------------------------------------------------------ C25
\* no addServer or removeServer call is under way
CallsCompleted ==
    /\ cfgOps = {}
    /\ \A c \in conns : c.src # "add"
Persisted == {n \in Names : cfgFile[n] # NoCfg}
Registered == {n \in Names : servers[n] # NoEntry}

\* C25: whenever every addServer and removeServer call made so far has
\* completed, by success or by failure, the persisted configuration holds
\* exactly the names of the registry
C25_ConfigMatchesRegistry ==
    phase = "running" /\ CallsCompleted => Persisted = Registered

\* ------------------------------------------------------------------------ C26
\* the ServerState that was registered under name when obj was created has
\* been removed and the name registered anew
Reincarnated(name, obj) ==
    Present(servers, name) /\ servers[name].obj # obj

\* C26: the result of a connect attempt or of a health probe that was started
\* for an earlier incarnation of a name changes neither the status, client,
\* capability list and retry counter nor the reconnect timer of the entry
\* that a later add created under the same name
C26_Step ==
    phase = "running" =>
        /\ \A c \in conns :
               Reincarnated(c.name, c.obj) =>
                   \/ View(c.name)' = View(c.name)
                   \/ ~\E out \in ConnectOutcomes : ConnectDone(c, out)
        /\ \A n \in Names :
               /\ sweep.probe # NoProbe /\ sweep.probe.name = n
               /\ Reincarnated(n, sweep.probe.obj)
               => \/ View(n)' = View(n)
                  \/ ~\E ok \in BOOLEAN : ProbeDone(ok)
C26_StaleEventsIgnored == [][C26_Step]_vars

\* ------------------------------------------------------------------------ C27
\* the registry entries whose client field is client c
Owners(c) == {n \in Names : Present(servers, n) /\ servers[n].client = c}

\* C27: every live (opened and not yet closed) client is the client of
\* exactly one registry entry, and a step after which an entry no longer
\* references the client it held leaves that client closed
C27_Owned ==
    \A c \in ClientIds : clients[c].st = "open" => Cardinality(Owners(c)) = 1
C27_Released ==
    \A c \in ClientIds, n \in Names :
        n \in Owners(c) /\ n \notin Owners(c)' => clients'[c].st # "open"
C27_NoOrphanedConnection == []C27_Owned /\ [][C27_Released]_vars

\* ------------------------------------------------------------------------ C28
\* the pending reconnect timers of one name
TimersOf(n) == {t \in timerQ : t.name = n}

\* C28: at most one reconnect timer is pending per name, and a name with a
\* pending timer is in the registry with status reconnecting
C28_TimerDiscipline ==
    \A n \in Names :
        /\ Cardinality(TimersOf(n)) <= 1
        /\ TimersOf(n) # {} =>
               Present(servers, n) /\ servers[n].status = "reconnecting"

\* ------------------------------------------------------------------------ C29
\* the entry that probe p was issued for is still connected through the
\* client that was probed
StillProbed(p) ==
    /\ Present(servers, p.name)
    /\ servers[p.name].status = "connected"
    /\ servers[p.name].client = p.client

\* C29: in a running gateway the failure of a health probe changes the entry
\* only if the entry is still connected through the client that was probed;
\* a disconnect that the close callback has already handled is not counted a
\* second time
C29_Step ==
    \A n \in Names :
        /\ sweep.probe # NoProbe /\ sweep.probe.name = n
        /\ ~StillProbed(sweep.probe)
        /\ phase = "running"
        => View(n)' = View(n) \/ ~ProbeDone(FALSE)
C29_ProbeFailureGuarded == [][C29_Step]_vars

\* ------------------------------------------------------------------------ C30
\* the connects that addServer calls have opened for name n and that have
\* not returned yet
AddConnects(n) == {c \in conns : c.name = n /\ c.src = "add"}

\* C30: of addServer calls for one name that overlap at most one opens a
\* connection; a call that comes to its connect when the entry of the name
\* already exists opens none and leaves that entry as it is
C30_OneConnect == \A n \in Names : Cardinality(AddConnects(n)) <= 1
C30_SecondFails ==
    \A o \in cfgOps :
        o.op = "add" /\ o.pc = "save" /\ Present(servers, o.name) =>
            \/ servers'[o.name] = servers[o.name] /\ conns' = conns
            \/ ~CfgSave(o)
C30_OverlappingAdds == []C30_OneConnect /\ [][C30_SecondFails]_vars
====
